---- MODULE Spec2Model ----
(***************************************************************************)
(* Model of the entity selector factory (EntitySelectorsFactory):          *)
(* the collection accessor, the member selectors built by                  *)
(* createCollectionSelectors and the root selectors built by create, all   *)
(* composed with the two-level memoization of createSelector.              *)
(*                                                                         *)
(* Every JavaScript object is a record with an object identity oid;        *)
(* reference equality (===) is equality of oids.  Primitive values and     *)
(* undefined carry oid 0 and are compared by value.                        *)
(***************************************************************************)
EXTENDS Integers, Sequences, FiniteSets, TLC

\* Number of top-level selector calls explored in one behaviour.
MaxCalls == 3

\* Number of calls in the runs that use every root selector.
MaxWideCalls == 2

\* Number of calls in the runs that interleave the selectors of two types.
MaxPrivacyCalls == 4

\* Number of calls made on a selectors object after it was built.
MaxBuiltCalls == 2

\* Number of fields a configuration declares in additionalCollectionState.
MaxExtra == 2

Types == {"Foo", "Bar"}

Other(t) == IF t = "Foo" THEN "Bar" ELSE "Foo"

---------------------------------------------------------------------------
\* Values and references

Undefined == [oid |-> 0, val |-> "undefined"]

Prim(v) == [oid |-> 0, val |-> v]

\* a === b
Same(a, b) ==
  IF a.oid # b.oid THEN FALSE
  ELSE IF a.oid = 0 THEN a.val = b.val
  ELSE TRUE

\* Identity of the k-th object allocated at allocation site number site (the
\* creator call of a collection selector, the keys.map of a selectEntities,
\* the filterFn of a selectFilteredEntities).  Objects allocated at different
\* sites or at different times are different objects.
FreshOid(site, k) == 1000 * site + k

---------------------------------------------------------------------------
\* The objects the store can hold (the inputs of the selectors)

E1 == [oid |-> 1, id |-> 1, name |-> "a"]
E2 == [oid |-> 2, id |-> 2, name |-> "b"]

IdsA == [oid |-> 11, val |-> <<2, 1>>]
IdsB == [oid |-> 12, val |-> <<2>>]

EntA == [oid |-> 21, val |-> (1 :> E1 @@ 2 :> E2)]
EntB == [oid |-> 22, val |-> (2 :> E2)]

NoOriginals == [oid |-> 31, val |-> <<>>]

\* Field names a configuration may declare in additionalCollectionState.
ExtraFields == {"loadedAt", "LoadedAt", "count", "collection"}

\* The value a stored collection with identity o holds in extra field f.
StoredExtra(o) == [f \in ExtraFields |-> Prim(f \o "@" \o ToString(o))]

\* An EntityCollection object.
Coll(o, ids, entities, filter, loaded, loading) ==
  [oid |-> o, ids |-> ids, entities |-> entities, filter |-> filter,
   loaded |-> loaded, loading |-> loading, originalValues |-> NoOriginals,
   extra |-> StoredExtra(o)]

F1 == Coll(41, IdsA, EntA, "", TRUE, FALSE)
\* F1 with only loading flipped: ids and entities keep their identity
F2 == Coll(42, IdsA, EntA, "", TRUE, TRUE)
\* other keys and entities
F3 == Coll(43, IdsB, EntB, "", TRUE, FALSE)
\* F1 with only the filter pattern changed
F4 == Coll(44, IdsA, EntA, "a", TRUE, FALSE)

B1 == Coll(46, IdsA, EntA, "", TRUE, FALSE)
B3 == Coll(48, IdsB, EntB, "", TRUE, FALSE)

Collections == {F1, F2, F3, F4}

\* Marks an entity name without an entry in an EntityCache object.
Absent == [oid |-> 0, val |-> "undefined", ids |-> Undefined]

IsAbsent(c) == c.oid = 0

\* The EntityCache objects, by identity: entity name -> collection.
\* 50 is the empty cache the application starts with; 51 and 52 differ only
\* in Foo's collection, as do 50 and 54 (which both lack Bar).
InitCaches ==
  50 :> [Foo |-> Absent, Bar |-> Absent] @@
  51 :> [Foo |-> F1, Bar |-> B1] @@
  52 :> [Foo |-> F2, Bar |-> B1] @@
  53 :> [Foo |-> F3, Bar |-> B3] @@
  54 :> [Foo |-> F3, Bar |-> Absent]

CacheRef(k) == [oid |-> k, val |-> "cache"]

\* The global state objects, by identity: the value of state[cacheName].
\* 64 and 65 are different state objects holding the same cache object.
InitStore ==
  60 :> CacheRef(50) @@
  61 :> CacheRef(51) @@
  62 :> CacheRef(52) @@
  63 :> CacheRef(53) @@
  64 :> CacheRef(54) @@
  65 :> CacheRef(54)

StateRef(s) == [oid |-> s, val |-> "state"]

States == {StateRef(s) : s \in DOMAIN InitStore}


---------------------------------------------------------------------------
\* Per-type configuration (EntityMetadata)

\* metadata.filterFn is supplied for Foo and left out for Bar.
HasFilterFn(entityName) == entityName = "Foo"

\* The configured predicate: entities whose name contains the pattern
\* (names are single letters; the empty pattern matches every name).
Matches(e, pattern) == pattern = "" \/ e.name = pattern

\* metadata.entityName of a configuration that leaves it out.
Missing == "undefined"

\* A configuration: metadata.entityName and the keys of
\* metadata.additionalCollectionState in the order Object.keys lists them
\* (metadata.filterFn is given by HasFilterFn).
Metadata(entityName, fields) ==
  [entityName |-> entityName, additionalCollectionState |-> fields]

\* The selectors of Foo and Bar are built without additional state.
NoMetadata == Metadata(Missing, <<>>)

\* The default a configuration declares for extra field f.
DeclaredDefault(f) == Prim(f \o "=default")

\* Sequences without repetition of at most n of the fields S.
RECURSIVE Keys(_, _)
Keys(S, n) ==
  IF n = 0 THEN {<<>>}
  ELSE {<<>>} \cup UNION {{<<f>> \o r : r \in Keys(S \ {f}, n - 1)} : f \in S}

Configurations ==
  {Metadata(n, fs) : n \in Types \cup {Missing}, fs \in Keys(ExtraFields, MaxExtra)}

---------------------------------------------------------------------------
\* State

VARIABLES
  sel,        \* memoization state of every selector built by the factory
  caches,     \* contents of the EntityCache objects
  store,      \* contents of the global state objects
  nAlloc,     \* number of objects allocated so far, per allocation site
  callCount,  \* number of top-level selector calls so far
  last,       \* the most recent top-level call and what it did
  metadata,   \* the configuration given to the most recent build
  built,      \* what that build returned
  watch       \* the most recent call on the selectors of one, watched, type

vars == <<sel, caches, store, nAlloc, callCount, last, metadata, built, watch>>

\* Names of a CollectionSelectors object.
MemberNames ==
  {"selectCount", "selectEntities", "selectEntityMap", "selectFilter",
   "selectFilteredEntities", "selectKeys", "selectLoaded", "selectLoading",
   "selectOriginalValues"}

\* Names of an EntitySelectors object that are selectors.
RootNames == MemberNames \cup {"selectCollection"}

\* k[0].toUpperCase() + k.slice(1)
Capitalize(k) ==
  CASE k = "loadedAt" -> "LoadedAt"
    [] k = "LoadedAt" -> "LoadedAt"
    [] k = "count" -> "Count"
    [] k = "collection" -> "Collection"

\* 'select' + k[0].toUpperCase() + k.slice(1)
extraName(k) == "select" \o Capitalize(k)

\* Selector instances that own a memoization state.  Kind "F" is the
\* factory's selectEntityCache, "A" a collection selector, "M" a selector of
\* a CollectionSelectors object built by createCollectionSelectors, "P" one of
\* the CollectionSelectors object that create builds for itself, "R" a
\* selector of an EntitySelectors object.
\* Name of a selector instance.
SelId(x, t, k) == x \o "." \o t \o "." \o k

FeatureId == "F..selectEntityCache"

AccessorId(t) == SelId("A", t, "selectCollection")

SelIds ==
  {FeatureId}
    \cup {AccessorId(t) : t \in Types}
    \cup {SelId(x, t, k) : x \in {"M", "P"}, t \in Types,
                        k \in {"selectEntities", "selectCount", "selectFilteredEntities"}}
    \cup {SelId("R", t, k) : t \in Types, k \in MemberNames}
    \cup {SelId("R", t, extraName(f)) : t \in Types, f \in ExtraFields}

\* Selector instances whose projector allocates objects, numbered.
AllocSites ==
  {AccessorId(t) : t \in Types}
    \cup {SelId(x, t, k) : x \in {"M", "P"}, t \in Types,
                           k \in {"selectEntities", "selectFilteredEntities"}}

SiteNo(id) ==
  CASE id = "A.Foo.selectCollection" -> 1
    [] id = "A.Bar.selectCollection" -> 2
    [] id = "M.Foo.selectEntities" -> 3
    [] id = "M.Bar.selectEntities" -> 4
    [] id = "P.Foo.selectEntities" -> 5
    [] id = "P.Bar.selectEntities" -> 6
    [] id = "M.Foo.selectFilteredEntities" -> 7
    [] id = "M.Bar.selectFilteredEntities" -> 8
    [] id = "P.Foo.selectFilteredEntities" -> 9
    [] id = "P.Bar.selectFilteredEntities" -> 10

Null == [oid |-> 0, val |-> "null"]

\* memoize(): lastArguments = null, lastResult = null
NullMemo == [lastArguments |-> <<>>, lastResult |-> Null]

NoRuns == [create |-> 0, map |-> 0, length |-> 0, filter |-> 0]

Ret(out, env) == [out |-> out, env |-> env]

Ran(env, what) == [env EXCEPT !.ran[what] = @ + 1]

---------------------------------------------------------------------------
\* createSelector and its memoize

\* memoized(): the arguments equal (!==) the last ones
MemoHit(m, args) ==
  /\ m.lastArguments # <<>>
  /\ \A i \in 1..Len(args) : Same(args[i], m.lastArguments[i])

\* The identity of a value: all that a later === reads of it.
Ref(a) == [oid |-> a.oid, val |-> IF a.oid = 0 THEN a.val ELSE "object"]

\* lastArguments is kept by identity: memoized only compares it.
Remember(env, id, level, args, res) ==
  [env EXCEPT !.sel[id][level] =
     [lastArguments |-> [i \in 1..Len(args) |-> Ref(args[i])], lastResult |-> res]]

\* The selector createSelector(...selectors, projector) returns, applied to
\* state: memoizedState wraps the input selectors and memoizedProjector.
createSelector(id, Inputs(_, _), Projector(_, _), state, env) ==
  IF MemoHit(env.sel[id].state, <<state>>)
  THEN Ret(env.sel[id].state.lastResult, env)
  ELSE LET a == Inputs(state, env)
           p == a.env.sel[id].proj
           r == IF MemoHit(p, a.out)
                THEN Ret(p.lastResult, a.env)
                ELSE LET c == Projector(a.out, a.env)
                     IN  Ret(c.out, Remember(c.env, id, "proj", a.out, c.out))
       IN  Ret(r.out, Remember(r.env, id, "state", <<state>>, r.out))

---------------------------------------------------------------------------
\* Collection Creator (EntityCollectionCreator.create): an empty collection
\* with the declared default of every additional field, a new object on every
\* call.
create(entityName, env) ==
  LET site == AccessorId(entityName)
      n == env.nAlloc[site]
      c == [oid |-> FreshOid(SiteNo(site), 4 * n + 1),
            ids |-> [oid |-> FreshOid(SiteNo(site), 4 * n + 2), val |-> <<>>],
            entities |-> [oid |-> FreshOid(SiteNo(site), 4 * n + 3), val |-> <<>>],
            filter |-> "",
            loaded |-> FALSE,
            loading |-> FALSE,
            originalValues |-> [oid |-> FreshOid(SiteNo(site), 4 * n + 4), val |-> <<>>],
            extra |-> [f \in {env.metadata.additionalCollectionState[i] :
                                i \in DOMAIN env.metadata.additionalCollectionState}
                         |-> DeclaredDefault(f)]]
  IN  Ret(c, Ran([env EXCEPT !.nAlloc[site] = n + 1], "create"))

---------------------------------------------------------------------------
\* EntitySelectorsFactory

\* state => state[cacheName], the input of createFeatureSelector
featureState(state, env) == Ret(<<env.store[state.oid]>>, env)

\* this.selectEntityCache = createFeatureSelector(cacheName)
selectEntityCache(state, env) ==
  createSelector(FeatureId, featureState,
                 LAMBDA args, e : Ret(args[1], e), state, env)

\* cache[entityName], with (cache = {}) for an undefined cache
lookup(cache, entityName, env) ==
  IF cache.oid = 0 THEN Absent ELSE env.caches[cache.oid][entityName]

\* Faulty variant of getCollection: the creator's default is left out.
getCollectionNoDefault(entityName, cache, env) ==
  Ret(lookup(cache, entityName, env), env)

\* Faulty variant of getCollection: the created default is stored in the cache.
getCollectionWriteBack(entityName, cache, env) ==
  IF ~IsAbsent(lookup(cache, entityName, env))
  THEN Ret(lookup(cache, entityName, env), env)
  ELSE LET r == create(entityName, env)
       IN  IF cache.oid = 0 THEN r
           ELSE Ret(r.out, [r.env EXCEPT !.caches[cache.oid][entityName] = r.out])

\* Faulty variant of getCollection: the first default made for the type is kept
\* and handed out again.
getCollectionKeptDefault(entityName, cache, env) ==
  IF ~IsAbsent(lookup(cache, entityName, env))
  THEN Ret(lookup(cache, entityName, env), env)
  ELSE IF env.nAlloc[AccessorId(entityName)] = 0
  THEN create(entityName, env)
  ELSE Ret(create(entityName,
                  [env EXCEPT !.nAlloc[AccessorId(entityName)] = 0]).out,
           env)

\* Faulty variant of getCollection: hands out a copy of the stored collection.
getCollectionCopy(entityName, cache, env) ==
  IF ~IsAbsent(lookup(cache, entityName, env))
  THEN LET site == AccessorId(entityName)
       IN  Ret([lookup(cache, entityName, env) EXCEPT
                  !.oid = FreshOid(SiteNo(site), 4 * env.nAlloc[site] + 1)],
               [env EXCEPT !.nAlloc[site] = @ + 1])
  ELSE create(entityName, env)

\* getCollection = (cache = {}) =>
\*   cache[entityName] || this.entityCollectionCreator.create(entityName)
getCollection(entityName, cache, env) ==
  IF ~IsAbsent(lookup(cache, entityName, env))
  THEN Ret(lookup(cache, entityName, env), env)
  ELSE create(entityName, env)

\* A selector whose createSelector runs anew on every call starts each call
\* with an empty memoization state.
Rebuilt(env, id) ==
  [env EXCEPT !.sel[id] = [state |-> NullMemo, proj |-> NullMemo]]

\* Faulty variant of selectCollection: the selector is rebuilt on every call.
selectCollectionRebuilt(entityName, state, env) ==
  createSelector(AccessorId(entityName),
                 LAMBDA s, e : LET r == selectEntityCache(s, e)
                               IN  Ret(<<r.out>>, r.env),
                 LAMBDA args, e : getCollection(entityName, args[1], e),
                 state, Rebuilt(env, AccessorId(entityName)))

\* Faulty variant of selectCollection: computed on the first call only.
selectCollectionOnce(entityName, state, env) ==
  IF env.sel[AccessorId(entityName)].state.lastArguments # <<>>
  THEN Ret(env.sel[AccessorId(entityName)].state.lastResult, env)
  ELSE createSelector(AccessorId(entityName),
                      LAMBDA s, e : LET r == selectEntityCache(s, e)
                                    IN  Ret(<<r.out>>, r.env),
                      LAMBDA args, e : getCollection(entityName, args[1], e),
                      state, env)

\* createCollectionSelector(entityName), applied to state
selectCollection(entityName, state, env) ==
  createSelector(AccessorId(entityName),
                 LAMBDA s, e : LET r == selectEntityCache(s, e)
                               IN  Ret(<<r.out>>, r.env),
                 LAMBDA args, e : getCollection(entityName, args[1], e),
                 state, env)

\* --- createCollectionSelectors(metadata) ---

selectKeys(c) == c.ids

selectEntityMap(c) == c.entities

\* Faulty variant of mapKeys: the values of the entity map, in the map's own order.
mapKeysValues(site, keys, entities, env) ==
  LET dom == DOMAIN entities.val
      Sorted[S \in SUBSET dom] ==
        IF S = {} THEN <<>>
        ELSE LET m == CHOOSE x \in S : \A y \in S : x <= y
             IN  <<entities.val[m]>> \o Sorted[S \ {m}]
  IN  Ret([oid |-> FreshOid(SiteNo(site), env.nAlloc[site] + 1), val |-> Sorted[dom]],
          Ran([env EXCEPT !.nAlloc[site] = @ + 1], "map"))

\* keys.map(key => entities[key])
mapKeys(site, keys, entities, env) ==
  LET arr == [i \in 1..Len(keys.val) |->
                IF keys.val[i] \in DOMAIN entities.val
                THEN entities.val[keys.val[i]]
                ELSE Undefined]
  IN  Ret([oid |-> FreshOid(SiteNo(site), env.nAlloc[site] + 1), val |-> arr],
          Ran([env EXCEPT !.nAlloc[site] = @ + 1], "map"))

\* Faulty variant of selectEntities: the selector is rebuilt on every call.
selectEntitiesRebuilt(x, entityName, c, env) ==
  createSelector(SelId(x, entityName, "selectEntities"),
                 LAMBDA cc, e : Ret(<<selectKeys(cc), selectEntityMap(cc)>>, e),
                 LAMBDA args, e : mapKeys(SelId(x, entityName, "selectEntities"),
                                          args[1], args[2], e),
                 c, Rebuilt(env, SelId(x, entityName, "selectEntities")))

\* selectEntities = createSelector(selectKeys, selectEntityMap, ...)
selectEntities(x, entityName, c, env) ==
  createSelector(SelId(x, entityName, "selectEntities"),
                 LAMBDA cc, e : Ret(<<selectKeys(cc), selectEntityMap(cc)>>, e),
                 LAMBDA args, e : mapKeys(SelId(x, entityName, "selectEntities"), args[1], args[2], e),
                 c, env)

\* keys => keys.length
keysLength(keys, env) == Ret(Prim(Len(keys.val)), Ran(env, "length"))

\* Faulty variant of selectCount: memoized on the collection, not on its keys.
selectCountByCollection(x, entityName, c, env) ==
  createSelector(SelId(x, entityName, "selectCount"),
                 LAMBDA cc, e : Ret(<<cc>>, e),
                 LAMBDA args, e : keysLength(selectKeys(args[1]), e),
                 c, env)

\* selectCount = createSelector(selectKeys, keys => keys.length)
selectCount(x, entityName, c, env) ==
  createSelector(SelId(x, entityName, "selectCount"),
                 LAMBDA cc, e : Ret(<<selectKeys(cc)>>, e),
                 LAMBDA args, e : keysLength(args[1], e),
                 c, env)

selectFilter(c) == Prim(c.filter)

\* SelectSeq keeps the order of the entity list
filterFn(site, entities, pattern, env) ==
  Ret([oid |-> FreshOid(SiteNo(site), env.nAlloc[site] + 1),
       val |-> SelectSeq(entities.val, LAMBDA e : Matches(e, pattern.val))],
      Ran([env EXCEPT !.nAlloc[site] = @ + 1], "filter"))

\* Faulty variant of filterProjector: the pattern is not passed on.
filterProjectorNoPattern(site, entities, pattern, env) ==
  filterFn(site, entities, Prim(""), env)

\* (entities, pattern) => filterFn(entities, pattern)
filterProjector(site, entities, pattern, env) ==
  filterFn(site, entities, pattern, env)

\* Faulty variant of selectFilteredEntities: without a filterFn, a selector of its
\* own that lets every entity pass.
selectFilteredEntitiesOwn(x, entityName, c, env) ==
  createSelector(SelId(x, entityName, "selectFilteredEntities"),
                 LAMBDA cc, e : LET r == selectEntities(x, entityName, cc, e)
                                IN  Ret(<<r.out, selectFilter(cc)>>, r.env),
                 LAMBDA args, e :
                   filterFn(SelId(x, entityName, "selectFilteredEntities"),
                            args[1],
                            IF HasFilterFn(entityName) THEN args[2] ELSE Prim(""),
                            e),
                 c, env)

\* Faulty variant of selectFilteredEntities: with a filterFn, the selector is
\* rebuilt on every call.
selectFilteredEntitiesRebuilt(x, entityName, c, env) ==
  IF HasFilterFn(entityName)
  THEN createSelector(SelId(x, entityName, "selectFilteredEntities"),
                      LAMBDA cc, e : LET r == selectEntities(x, entityName, cc, e)
                                     IN  Ret(<<r.out, selectFilter(cc)>>, r.env),
                      LAMBDA args, e : filterProjector(SelId(x, entityName, "selectFilteredEntities"),
                                                      args[1], args[2], e),
                      c, Rebuilt(env, SelId(x, entityName, "selectFilteredEntities")))
  ELSE selectEntities(x, entityName, c, env)

\* Faulty variant of selectFilteredEntities: without a filterFn, a copy of the
\* entity list.
selectFilteredEntitiesCopy(x, entityName, c, env) ==
  IF HasFilterFn(entityName)
  THEN createSelector(SelId(x, entityName, "selectFilteredEntities"),
                      LAMBDA cc, e : LET r == selectEntities(x, entityName, cc, e)
                                     IN  Ret(<<r.out, selectFilter(cc)>>, r.env),
                      LAMBDA args, e : filterProjector(SelId(x, entityName, "selectFilteredEntities"),
                                                      args[1], args[2], e),
                      c, env)
  ELSE LET r == selectEntities(x, entityName, c, env)
           site == SelId(x, entityName, "selectFilteredEntities")
       IN  Ret([oid |-> FreshOid(SiteNo(site), r.env.nAlloc[site] + 1),
                val |-> r.out.val],
               [r.env EXCEPT !.nAlloc[site] = @ + 1])

\* selectFilteredEntities = filterFn ? createSelector(selectEntities,
\*   selectFilter, ...) : selectEntities
selectFilteredEntities(x, entityName, c, env) ==
  IF HasFilterFn(entityName)
  THEN createSelector(SelId(x, entityName, "selectFilteredEntities"),
                      LAMBDA cc, e : LET r == selectEntities(x, entityName, cc, e)
                                     IN  Ret(<<r.out, selectFilter(cc)>>, r.env),
                      LAMBDA args, e : filterProjector(SelId(x, entityName, "selectFilteredEntities"),
                                                      args[1], args[2], e),
                      c, env)
  ELSE selectEntities(x, entityName, c, env)

selectLoaded(c) == Prim(c.loaded)

selectLoading(c) == Prim(c.loading)

selectOriginalValues(c) == c.originalValues

\* The selector bound to name k in the object createCollectionSelectors
\* returns, applied to collection c.
collectionSelectors(x, entityName, k, c, env) ==
  CASE k = "selectCount" -> selectCount(x, entityName, c, env)
    [] k = "selectEntities" -> selectEntities(x, entityName, c, env)
    [] k = "selectEntityMap" -> Ret(selectEntityMap(c), env)
    [] k = "selectFilter" -> Ret(selectFilter(c), env)
    [] k = "selectFilteredEntities" -> selectFilteredEntities(x, entityName, c, env)
    [] k = "selectKeys" -> Ret(selectKeys(c), env)
    [] k = "selectLoaded" -> Ret(selectLoaded(c), env)
    [] k = "selectLoading" -> Ret(selectLoading(c), env)
    [] k = "selectOriginalValues" -> Ret(selectOriginalValues(c), env)

\* --- create(metadata) ---

\* Faulty variant of entitySelectors: memoized on the global state, not on the
\* collection.
entitySelectorsByState(entityName, k, state, env) ==
  IF k = "selectCollection"
  THEN selectCollection(entityName, state, env)
  ELSE createSelector(SelId("R", entityName, k),
                      LAMBDA s, e : Ret(<<s>>, e),
                      LAMBDA args, e :
                        LET r == selectCollection(entityName, args[1], e)
                        IN  collectionSelectors("P", entityName, k, r.out, r.env),
                      state, env)

\* Faulty variant of entitySelectors: one set of root and member selectors
\* serves every type.
entitySelectorsOneSet(entityName, k, state, env) ==
  IF k = "selectCollection"
  THEN selectCollection(entityName, state, env)
  ELSE createSelector(SelId("R", "Foo", k),
                      LAMBDA s, e : LET r == selectCollection(entityName, s, e)
                                    IN  Ret(<<r.out>>, r.env),
                      LAMBDA args, e : collectionSelectors("P", "Foo", k, args[1], e),
                      state, env)

\* entitySelectors[k] = createSelector(selectCollection, collectionSelectors[k])
entitySelectors(entityName, k, state, env) ==
  IF k = "selectCollection"
  THEN selectCollection(entityName, state, env)
  ELSE createSelector(SelId("R", entityName, k),
                      LAMBDA s, e : LET r == selectCollection(entityName, s, e)
                                    IN  Ret(<<r.out>>, r.env),
                      LAMBDA args, e : collectionSelectors("P", entityName, k, args[1], e),
                      state, env)

\* --- the objects createCollectionSelectors and create return ---

\* A property of a returned object: what the name is bound to.
Bound(kind, arg) == [kind |-> kind, arg |-> arg]

\* selectCount, selectEntities, ..., selectOriginalValues
builtinSelectors == [k \in MemberNames |-> Bound("builtin", k)]

\* extraSelectors['select' + ...] = c => c[k], for each key k in turn
extraSelectors(md) ==
  LET keys == md.additionalCollectionState
      Put[n \in 0..Len(keys)] ==
        IF n = 0 THEN [x \in {} |-> Bound("field", "")]
        ELSE (extraName(keys[n]) :> Bound("field", keys[n])) @@ Put[n - 1]
  IN  Put[Len(keys)]

\* return { selectCount, ..., selectOriginalValues, ...extraSelectors }
createCollectionSelectors(md) == extraSelectors(md) @@ builtinSelectors

\* return { entityName, selectCollection, ...entitySelectors }
factoryCreate(md) ==
  [k \in DOMAIN createCollectionSelectors(md) |-> Bound("composed", k)]
    @@ ("selectCollection" :> Bound("accessor", md.entityName))
    @@ ("entityName" :> Bound("value", md.entityName))

\* (<any>c)[k]
fieldRead(c, k) == IF k \in DOMAIN c.extra THEN c.extra[k] ELSE Undefined

\* The selector bound to name k in createCollectionSelectors(md), applied to
\* collection c.
callMember(x, md, k, c, env) ==
  IF createCollectionSelectors(md)[k].kind = "field"
  THEN Ret(fieldRead(c, createCollectionSelectors(md)[k].arg), env)
  ELSE collectionSelectors(x, md.entityName, k, c, env)

\* The selector bound to name k in create(md), applied to the global state.
callRoot(md, k, state, env) ==
  IF factoryCreate(md)[k].kind = "accessor"
  THEN selectCollection(md.entityName, state, env)
  ELSE IF createCollectionSelectors(md)[k].kind = "builtin"
  THEN entitySelectors(md.entityName, k, state, env)
  ELSE createSelector(SelId("R", md.entityName, k),
                      LAMBDA s, e : LET r == selectCollection(md.entityName, s, e)
                                    IN  Ret(<<r.out>>, r.env),
                      LAMBDA args, e : callMember("P", md, k, args[1], e),
                      state, env)

---------------------------------------------------------------------------
\* Top-level calls

\* Nothing was built yet.
NotBuilt == [outcome |-> "none", kind |-> "", selectors |-> <<>>]

Env == [sel |-> sel, caches |-> caches, store |-> store,
        nAlloc |-> nAlloc, ran |-> NoRuns, metadata |-> metadata]

\* The selector instance a root or member name is bound to.
BoundId(x, t, k) ==
  IF k = "selectCollection" THEN AccessorId(t)
  ELSE IF k = "selectFilteredEntities" /\ x \in {"M", "P"} /\ ~HasFilterFn(t)
       THEN SelId(x, t, "selectEntities")
       ELSE SelId(x, t, k)

\* The names bound to a selector made by createSelector.
MemoizedNames == {"selectEntities", "selectCount", "selectFilteredEntities"}

\* A call of kind x ("A" or "R": of an EntitySelectors object, "M": of a
\* CollectionSelectors object) and name k goes to a selector made by
\* createSelector.
Memoized(x, k) == x \in {"A", "R"} \/ k \in MemoizedNames

NoCall ==
  [kind |-> "none", t |-> "", name |-> "", inp |-> Null, out |-> Null,
   prevArgs |-> <<>>, prevOut |-> Null, ran |-> NoRuns,
   preProj |-> <<>>, preAcc |-> <<>>, preAccOut |-> Null,
   preMem |-> <<>>, preMemOut |-> Null]

\* The member set a call of kind x goes through.
MemberSet(x) == IF x = "M" THEN "M" ELSE "P"

\* What a finished call leaves behind.
Finish(x, t, k, inp, r) ==
  /\ sel' = r.env.sel
  /\ caches' = r.env.caches
  /\ store' = r.env.store
  /\ nAlloc' = r.env.nAlloc
  /\ callCount' = callCount + 1
  /\ last' = [kind |-> x, t |-> t, name |-> k, inp |-> inp, out |-> r.out,
              prevArgs |-> IF Memoized(x, k)
                           THEN sel[BoundId(x, t, k)].state.lastArguments
                           ELSE <<>>,
              prevOut |-> IF Memoized(x, k)
                          THEN sel[BoundId(x, t, k)].state.lastResult
                          ELSE Null,
              ran |-> r.env.ran,
              preProj |-> IF Memoized(x, k)
                          THEN sel[BoundId(x, t, k)].proj.lastArguments
                          ELSE <<>>,
              preAcc |-> sel[AccessorId(t)].proj.lastArguments,
              preAccOut |-> sel[AccessorId(t)].proj.lastResult,
              preMem |-> sel[SelId(MemberSet(x), t, "selectEntities")].proj.lastArguments,
              preMemOut |-> sel[SelId(MemberSet(x), t, "selectEntities")].state.lastResult]

\* No type is watched yet.
NoWatch ==
  [t |-> "", name |-> "", inp |-> Null, out |-> Null, since |-> 0,
   again |-> FALSE, between |-> 0, before |-> Null]

\* The watch after a call of root selector k of type t on s that returned out.
\* The type of the first call is watched: a call on its selectors is
\* recorded, with whether it repeats the call recorded before; a call on the
\* selectors of the other type is counted.
Watched(t, k, s, out) ==
  IF watch.t = "" \/ watch.t = t
  THEN [t |-> t, name |-> k, inp |-> s, out |-> out, since |-> 0,
        again |-> watch.t = t /\ watch.name = k /\ Same(watch.inp, s),
        between |-> watch.since, before |-> watch.out]
  ELSE [watch EXCEPT !.since = @ + 1, !.again = FALSE]

\* selectors[k](state), for the EntitySelectors of type t, watched
CallWatched(t, k, s) ==
  /\ Finish("R", t, k, s, entitySelectors(t, k, s, Env))
  /\ watch' = Watched(t, k, s, entitySelectors(t, k, s, Env).out)
  /\ UNCHANGED <<metadata, built>>

Init ==
  /\ sel = [id \in SelIds |-> [state |-> NullMemo, proj |-> NullMemo]]
  /\ caches = InitCaches
  /\ store = InitStore
  /\ nAlloc = [id \in AllocSites |-> 0]
  /\ callCount = 0
  /\ last = NoCall
  /\ metadata = NoMetadata
  /\ built = NotBuilt
  /\ watch = NoWatch

\* selectors.selectCollection(state)
CallCollection(t, s) ==
  /\ Finish("A", t, "selectCollection", s, selectCollection(t, s, Env))
  /\ UNCHANGED <<metadata, built, watch>>

\* selectors[k](state), for the EntitySelectors of type t
CallRoot(t, k, s) ==
  /\ Finish("R", t, k, s, entitySelectors(t, k, s, Env))
  /\ UNCHANGED <<metadata, built, watch>>

\* collectionSelectors[k](c), for the CollectionSelectors of type t
CallMember(t, k, c) ==
  /\ Finish("M", t, k, c, collectionSelectors("M", t, k, c, Env))
  /\ UNCHANGED <<metadata, built, watch>>

\* What a finished call on a built selectors object leaves behind.
BuiltFinish(x, k, inp, r) ==
  /\ sel' = r.env.sel
  /\ caches' = r.env.caches
  /\ store' = r.env.store
  /\ nAlloc' = r.env.nAlloc
  /\ callCount' = callCount + 1
  /\ last' = [NoCall EXCEPT !.kind = x, !.t = metadata.entityName, !.name = k,
                            !.inp = inp, !.out = r.out, !.ran = r.env.ran]

\* collectionSelectors = factory.createCollectionSelectors(md)
BuildMember(md) ==
  /\ built.outcome = "none"
  /\ metadata' = md
  /\ built' = [outcome |-> "returned", kind |-> "member",
               selectors |-> createCollectionSelectors(md)]
  /\ UNCHANGED <<sel, caches, store, nAlloc, callCount, last, watch>>

\* selectors = factory.create(md)
BuildRoot(md) ==
  /\ built.outcome = "none"
  /\ metadata' = md
  /\ built' = [outcome |-> "returned", kind |-> "root",
               selectors |-> factoryCreate(md)]
  /\ UNCHANGED <<sel, caches, store, nAlloc, callCount, last, watch>>

\* collectionSelectors[k](c), for the object the build returned
CallBuiltMember(k, c) ==
  /\ built.outcome = "returned" /\ built.kind = "member"
  /\ metadata.entityName \in Types
  /\ k \in DOMAIN built.selectors
  /\ BuiltFinish("BM", k, c, callMember("M", metadata, k, c, Env))
  /\ UNCHANGED <<metadata, built, watch>>

\* selectors[k](state), for the object the build returned
CallBuiltRoot(k, s) ==
  /\ built.outcome = "returned" /\ built.kind = "root"
  /\ metadata.entityName \in Types
  /\ k \in DOMAIN built.selectors \ {"entityName"}
  /\ BuiltFinish("BR", k, s, callRoot(metadata, k, s, Env))
  /\ UNCHANGED <<metadata, built, watch>>

---------------------------------------------------------------------------
\* Specifications.  Each explores every sequence of calls, up to a bound, of
\* one family of selectors on one family of inputs.

\* Spec: the collection selectors and the root selectors that share a member
\* selectEntities, for both types, on every global state.
SharingNames == {"selectEntities", "selectFilteredEntities"}

SpecCollection(t, s) == callCount < MaxCalls /\ CallCollection(t, s)

SpecRoot(t, k, s) == callCount < MaxCalls /\ CallRoot(t, k, s)

Next ==
  \/ \E t \in Types, s \in States : SpecCollection(t, s)
  \/ \E t \in Types, k \in SharingNames, s \in States : SpecRoot(t, k, s)

Spec == Init /\ [][Next]_vars

\* MemberSpec: every member selector of the CollectionSelectors of both types.
MemberCall(t, k, c) == callCount < MaxCalls /\ CallMember(t, k, c)

MemberNext ==
  \E t \in Types, k \in MemberNames, c \in Collections : MemberCall(t, k, c)

MemberSpec == Init /\ [][MemberNext]_vars

\* WideSpec: every root selector and every memoized member selector, over
\* shorter runs.
WideStates == {StateRef(60), StateRef(61), StateRef(62), StateRef(64)}

WideCollection(t, s) == callCount < MaxWideCalls /\ CallCollection(t, s)

WideRoot(t, k, s) == callCount < MaxWideCalls /\ CallRoot(t, k, s)

WideMember(t, k, c) == callCount < MaxWideCalls /\ CallMember(t, k, c)

WideNext ==
  \/ \E t \in Types, s \in WideStates : WideCollection(t, s)
  \/ \E t \in Types, k \in MemberNames, s \in WideStates : WideRoot(t, k, s)
  \/ \E t \in Types, k \in MemoizedNames, c \in {F1, F3} : WideMember(t, k, c)

WideSpec == Init /\ [][WideNext]_vars

\* MixedSpec: the memoized selectors, called as root selectors and as member
\* selectors, on the inputs that differ in one part of Foo's collection.
MixedStates == {StateRef(61), StateRef(62), StateRef(63)}

MixedCollections == {F1, F2, F3}

MixedRoot(t, k, s) == callCount < MaxCalls /\ CallRoot(t, k, s)

MixedMember(t, k, c) == callCount < MaxCalls /\ CallMember(t, k, c)

MixedNext ==
  \/ \E t \in Types, k \in MemoizedNames, s \in MixedStates : MixedRoot(t, k, s)
  \/ \E t \in Types, k \in MemoizedNames, c \in MixedCollections : MixedMember(t, k, c)

MixedSpec == Init /\ [][MixedNext]_vars

\* ShareSpec: the root selectors that share a member selectEntities, for both
\* types, on global states that differ in the collections of both types.
ShareStates == {StateRef(61), StateRef(63), StateRef(64)}

ShareRoot(t, k, s) == callCount < MaxCalls /\ CallRoot(t, k, s)

ShareNext ==
  \E t \in Types, k \in SharingNames, s \in ShareStates : ShareRoot(t, k, s)

ShareSpec == Init /\ [][ShareNext]_vars

\* PrivacySpec: root selectors of both types in any interleaving, with the
\* calls on the selectors of one type watched.
PrivacyNames == {"selectEntities", "selectCount"}

PrivacyRoot(t, k, s) == callCount < MaxPrivacyCalls /\ CallWatched(t, k, s)

PrivacyNext ==
  \E t \in Types, k \in PrivacyNames, s \in ShareStates : PrivacyRoot(t, k, s)

PrivacySpec == Init /\ [][PrivacyNext]_vars

\* BuildSpec: one selectors object is built from any configuration and its
\* selectors for the additional fields, and some built-in ones, are called.
BuiltCallNames ==
  {extraName(f) : f \in ExtraFields} \cup {"selectLoaded", "selectEntities"}

BuiltStates == {StateRef(60), StateRef(61), StateRef(63)}

BuiltCollections == {F1, F3}

BuiltMember(k, c) == callCount < MaxBuiltCalls /\ CallBuiltMember(k, c)

BuiltRoot(k, s) == callCount < MaxBuiltCalls /\ CallBuiltRoot(k, s)

BuildNext ==
  \/ \E md \in Configurations : BuildMember(md)
  \/ \E md \in Configurations : BuildRoot(md)
  \/ \E k \in BuiltCallNames, c \in BuiltCollections : BuiltMember(k, c)
  \/ \E k \in BuiltCallNames, s \in BuiltStates : BuiltRoot(k, s)

BuildSpec == Init /\ [][BuildNext]_vars

---------------------------------------------------------------------------
\* Vocabulary of the properties

\* The collection the cache of global state s stores for type t, or Absent.
Stored(t, s) == lookup(store[s.oid], t, Env)

\* The global state a root selector was called with the time before.
PrevState == StateRef(last.prevArgs[1].oid)

AllCollections == {F1, F2, F3, F4, B1, B3}

\* The collection a member selector was called with the time before.
PrevCollection == CHOOSE c \in AllCollections : c.oid = last.prevArgs[1].oid

IsRootCall == last.kind \in {"A", "R"}

\* The call went to a selector that had been called before.
CalledBefore == last.prevArgs # <<>>

\* s1 and s2 hold different EntityCache objects that differ only in the
\* entry of type f.
DiffersOnlyIn(f, s1, s2) ==
  LET k1 == store[s1.oid]
      k2 == store[s2.oid]
  IN  /\ k1.oid # 0 /\ k2.oid # 0 /\ k1.oid # k2.oid
      /\ ~Same(caches[k1.oid][f], caches[k2.oid][f])
      /\ \A t \in Types \ {f} : Same(caches[k1.oid][t], caches[k2.oid][t])

\* s1 and s2 are different state objects holding the identical cache slice.
SameSlice(s1, s2) == s1.oid # s2.oid /\ Same(store[s1.oid], store[s2.oid])

\* c1 and c2 are different collection objects with identical ids and entities.
SubFieldSame(c1, c2) ==
  /\ ~IsAbsent(c1) /\ ~IsAbsent(c2)
  /\ ~Same(c1, c2)
  /\ Same(c1.ids, c2.ids)
  /\ Same(c1.entities, c2.entities)

---------------------------------------------------------------------------
\* C1: a collection selector called again with the identical global state
\* returns the same collection and does not invoke the creator, whether or
\* not the cache stores a collection for the type.
C1_AccessorMemoized ==
  (last.kind = "A" /\ CalledBefore /\ Same(last.prevArgs[1], last.inp))
    => (Same(last.out, last.prevOut) /\ last.ran.create = 0)

C1_Witness ==
  /\ last.kind = "A" /\ CalledBefore /\ Same(last.prevArgs[1], last.inp)
  /\ IsAbsent(Stored(last.t, last.inp))
  /\ Same(last.out, last.prevOut)

\* C2 as stated: a root selector of one type, called on s1 and then on s2
\* that differs only in the other type's collection, returns the same
\* reference, also when the cache stores no collection for its type.
C2_Original ==
  (IsRootCall /\ CalledBefore /\ DiffersOnlyIn(Other(last.t), PrevState, last.inp))
    => Same(last.out, last.prevOut)

\* C2 amended: the same, for a type whose collection the cache stores.
C2_IsolationStored ==
  (/\ IsRootCall /\ CalledBefore
   /\ DiffersOnlyIn(Other(last.t), PrevState, last.inp)
   /\ ~IsAbsent(Stored(last.t, last.inp)))
    => Same(last.out, last.prevOut)

C2_Witness ==
  /\ last.kind = "R" /\ last.name = "selectEntities" /\ CalledBefore
  /\ DiffersOnlyIn(Other(last.t), PrevState, last.inp)
  /\ ~IsAbsent(Stored(last.t, last.inp))
  /\ Same(last.out, last.prevOut)

\* C3 as stated: a root selector called on s1 and then on another state
\* object with the identical cache slice returns the same reference and runs
\* neither a member computation nor the creator, also for an absent type.
C3_Original ==
  (IsRootCall /\ CalledBefore /\ SameSlice(PrevState, last.inp))
    => (Same(last.out, last.prevOut) /\ last.ran = NoRuns)

\* The collection selector of the call's type still caches, for the slice of
\* the call's input, the collection this root selector received last time.
AccessorStillHolds ==
  /\ last.preAcc # <<>> /\ Same(last.preAcc[1], store[last.inp.oid])
  /\ last.preProj # <<>> /\ Same(last.preAccOut, last.preProj[1])

\* C3 amended: the same for selectCollection and for every root selector of
\* a type with a stored collection; for an absent type only while the
\* collection selector still caches the default the root selector received.
C3_SliceMemoized ==
  (/\ IsRootCall /\ CalledBefore /\ SameSlice(PrevState, last.inp)
   /\ \/ last.kind = "A"
      \/ ~IsAbsent(Stored(last.t, last.inp))
      \/ AccessorStillHolds)
    => (Same(last.out, last.prevOut) /\ last.ran = NoRuns)

C3_Witness ==
  /\ last.kind = "R" /\ CalledBefore /\ SameSlice(PrevState, last.inp)
  /\ IsAbsent(Stored(last.t, last.inp))
  /\ AccessorStillHolds
  /\ Same(last.out, last.prevOut) /\ last.ran = NoRuns

\* C4: a memoized member or root selector called again with the identical
\* input returns the same reference and runs no computation.
C4_SameInputMemoized ==
  (CalledBefore /\ Same(last.prevArgs[1], last.inp))
    => (Same(last.out, last.prevOut) /\ last.ran = NoRuns)

C4_Witness ==
  /\ last.kind = "M" /\ last.name = "selectEntities"
  /\ CalledBefore /\ Same(last.prevArgs[1], last.inp)
  /\ Same(last.out, last.prevOut) /\ last.ran = NoRuns

\* The call was member selectEntities or selectCount on a collection that
\* shares ids and entities with the one of the call before.
MemberSubFieldCall ==
  /\ last.kind = "M" /\ last.name \in {"selectEntities", "selectCount"}
  /\ CalledBefore
  /\ SubFieldSame(PrevCollection, last.inp)

\* The same for the root selector of name k.
RootSubFieldCall(k) ==
  /\ last.kind = "R" /\ last.name = k
  /\ CalledBefore
  /\ SubFieldSame(Stored(last.t, PrevState), Stored(last.t, last.inp))

NoRecompute ==
  /\ Same(last.out, last.prevOut)
  /\ last.ran.map = 0 /\ last.ran.length = 0

\* C5 as stated: selectEntities and selectCount, member and root, called on
\* a new collection with unchanged ids and entities, do not recompute and
\* return the reference of the call before.
C5_Original ==
  (\/ MemberSubFieldCall
   \/ RootSubFieldCall("selectEntities")
   \/ RootSubFieldCall("selectCount"))
    => NoRecompute

\* The member selectEntities behind the root selectors still caches, for the
\* ids and entities of the call's collection, the array that root
\* selectEntities returned the time before.
MemberStillHolds ==
  /\ last.preMem # <<>>
  /\ Same(last.preMem[1], Stored(last.t, last.inp).ids)
  /\ Same(last.preMem[2], Stored(last.t, last.inp).entities)
  /\ Same(last.preMemOut, last.prevOut)

\* C5 amended: as stated for the member selectors and for root selectCount;
\* for root selectEntities only while the shared member selectEntities still
\* caches the array of the call before.
C5_SubFieldMemoized ==
  (\/ MemberSubFieldCall
   \/ RootSubFieldCall("selectEntities") /\ MemberStillHolds
   \/ RootSubFieldCall("selectCount"))
    => NoRecompute

C5_Witness ==
  /\ RootSubFieldCall("selectEntities") /\ MemberStillHolds
  /\ NoRecompute

\* selectEntities, selectKeys, selectCount and selectEntityMap of one
\* CollectionSelectors object agree on collection c.
Consistent(t, c) ==
  LET e == collectionSelectors("M", t, "selectEntities", c, Env)
      n == collectionSelectors("M", t, "selectCount", c, e.env)
      k == collectionSelectors("M", t, "selectKeys", c, n.env)
      m == collectionSelectors("M", t, "selectEntityMap", c, k.env)
  IN  /\ Len(e.out.val) = Len(k.out.val)
      /\ Len(k.out.val) = n.out.val
      /\ \A i \in 1..Len(k.out.val) :
           Same(e.out.val[i], m.out.val[k.out.val[i]])

\* C6: after any earlier calls, the entity list, the keys and the count of
\* every collection agree in length, and the i-th entity is the map's entry
\* for the i-th key.
C6_ListKeyConsistency == \A t \in Types, c \in Collections : Consistent(t, c)

C6_Witness ==
  /\ last.kind = "M" /\ last.name = "selectEntities"
  /\ CalledBefore /\ ~Same(last.prevArgs[1], last.inp)
  /\ Len(last.out.val) = 2
  /\ Consistent(last.t, last.inp)

IsDefault(c) ==
  /\ Len(c.ids.val) = 0
  /\ DOMAIN c.entities.val = {}
  /\ c.loaded = FALSE
  /\ c.loading = FALSE
  /\ DOMAIN c.originalValues.val = {}

\* c is an object the creator made for the collection selector of type t.
CreatedFor(t, c) == c.oid \div 1000 = SiteNo(AccessorId(t))

\* C7: for a type without an entry in the cache the collection selector
\* returns the creator's empty collection; for a stored type it returns the
\* stored object and the creator is not invoked.
C7_DefaultForUnseen ==
  last.kind = "A" =>
    IF IsAbsent(Stored(last.t, last.inp))
    THEN CreatedFor(last.t, last.out) /\ IsDefault(last.out)
    ELSE Same(last.out, Stored(last.t, last.inp)) /\ last.ran.create = 0

C7_Witness ==
  /\ last.kind = "A"
  /\ IsAbsent(Stored(last.t, last.inp))
  /\ last.ran.create = 1
  /\ CreatedFor(last.t, last.out) /\ IsDefault(last.out)

\* C8: no call changes a global state or an EntityCache; a type that was
\* absent stays absent.
C8_NoWriteBack == caches = InitCaches /\ store = InitStore

C8_Witness ==
  /\ IsRootCall
  /\ last.ran.create = 1
  /\ IsAbsent(Stored(last.t, last.inp))

\* C9: without a filterFn, selectFilteredEntities and selectEntities of one
\* CollectionSelectors object return the identical array for every
\* collection, in either order of calling.
C9_FilterPassThrough ==
  \A t \in Types, c \in Collections :
    ~HasFilterFn(t) =>
      /\ LET f == collectionSelectors("M", t, "selectFilteredEntities", c, Env)
             e == collectionSelectors("M", t, "selectEntities", c, f.env)
         IN  Same(f.out, e.out)
      /\ LET e == collectionSelectors("M", t, "selectEntities", c, Env)
             f == collectionSelectors("M", t, "selectFilteredEntities", c, e.env)
         IN  Same(f.out, e.out)

C9_Witness ==
  /\ last.kind = "M" /\ last.name = "selectFilteredEntities"
  /\ ~HasFilterFn(last.t)
  /\ CalledBefore /\ ~Same(last.prevArgs[1], last.inp)
  /\ Same(last.out,
          collectionSelectors("M", last.t, "selectEntities", last.inp, Env).out)

\* C10: with a filterFn, selectFilteredEntities of a collection is the
\* predicate applied to the collection's entity list and filter pattern.
C10_FilterApplication ==
  \A t \in Types, c \in Collections :
    HasFilterFn(t) =>
      LET f == collectionSelectors("M", t, "selectFilteredEntities", c, Env)
          e == collectionSelectors("M", t, "selectEntities", c, f.env)
          p == collectionSelectors("M", t, "selectFilter", c, e.env)
      IN  f.out.val = SelectSeq(e.out.val, LAMBDA x : Matches(x, p.out.val))

C10_Witness ==
  /\ last.kind = "M" /\ last.name = "selectFilteredEntities"
  /\ HasFilterFn(last.t)
  /\ last.inp.filter = "a"
  /\ Len(last.inp.ids.val) = 2
  /\ last.out.val = <<E1>>

---------------------------------------------------------------------------
\* Properties of the built objects

\* The fields the configuration of the build declares.
Declared ==
  {metadata.additionalCollectionState[i] :
     i \in DOMAIN metadata.additionalCollectionState}

Returned(kind) == built.outcome = "returned" /\ built.kind = kind

\* The built object can be called in this model: its entity name is one of
\* the cache's.
Callable(kind) == Returned(kind) /\ metadata.entityName \in Types

\* The value of field f of the collection global state s holds for the type
\* of the build: the stored one, or the declared default.
FieldOf(f, s) ==
  IF IsAbsent(Stored(metadata.entityName, s))
  THEN DeclaredDefault(f)
  ELSE Stored(metadata.entityName, s).extra[f]

\* C11: for every declared field k the built object has a selector named
\* "select" + Capitalize(k) that returns field k of the collection (the
\* declared default when the type is absent from the cache), and it has no
\* selector beyond the built-in ones and those of the declared fields.
C11_Original ==
  /\ built.outcome = "returned" =>
       /\ \A f \in Declared : extraName(f) \in DOMAIN built.selectors
       /\ DOMAIN built.selectors \subseteq
            MemberNames \cup {"selectCollection", "entityName"}
              \cup {extraName(f) : f \in Declared}
  /\ Callable("member") =>
       \A f \in Declared, c \in BuiltCollections :
         Same(callMember("M", metadata, extraName(f), c, Env).out, c.extra[f])
  /\ Callable("root") =>
       \A f \in Declared, s \in BuiltStates :
         Same(callRoot(metadata, extraName(f), s, Env).out, FieldOf(f, s))

\* No two declared fields are given the same selector name.
NoNameClash == \A f, g \in Declared : extraName(f) = extraName(g) => f = g

\* The statement of C11 for the configurations whose declared fields are
\* given different selector names.
C11_WithoutClash == NoNameClash => C11_Original

\* The names of the CollectionSelectors object of the configuration.
BuiltMemberNames == DOMAIN createCollectionSelectors(metadata)

\* selectCollection of the built EntitySelectors object returns the collection
\* of its type: the stored object, or one the creator made.
ReturnsCollection(s) ==
  LET r == callRoot(metadata, "selectCollection", s, Env)
  IN  IF IsAbsent(Stored(metadata.entityName, s))
      THEN CreatedFor(metadata.entityName, r.out)
      ELSE Same(r.out, Stored(metadata.entityName, s))

\* Root selector k on s gives what member selector k gives on the collection
\* selectCollection returns for s.
ComposedOf(k, s) ==
  LET r == callRoot(metadata, k, s, Env)
      c == selectCollection(metadata.entityName, s, r.env)
      m == callMember("M", metadata, k, c.out, c.env)
  IN  r.out.val = m.out.val

\* C12: the EntitySelectors object has one selector per name of the
\* CollectionSelectors object, plus selectCollection and entityName;
\* entityName is the configured name, selectCollection returns the
\* collection, and every other selector is the member selector of its name
\* applied to that collection.
C12_Original ==
  /\ Returned("root") =>
       /\ DOMAIN built.selectors =
            BuiltMemberNames \cup {"selectCollection", "entityName"}
       /\ built.selectors["entityName"] = Bound("value", metadata.entityName)
  /\ Callable("root") =>
       \A s \in BuiltStates :
         /\ ReturnsCollection(s)
         /\ \A k \in BuiltMemberNames : ComposedOf(k, s)

\* The statement of C12 for the configurations that declare no field named
\* collection.
C12_WithoutShadow == "collection" \notin Declared => C12_Original

\* C13: a build from a configuration without entityName does not return a
\* selectors object.
C13_Original ==
  built.outcome = "returned" => metadata.entityName # Missing

---------------------------------------------------------------------------
\* Memoization and the values returned

\* The content of a collection.
CollContent(c) ==
  [ids |-> c.ids.val, entities |-> c.entities.val, filter |-> c.filter,
   loaded |-> c.loaded, loading |-> c.loading,
   originalValues |-> c.originalValues.val]

\* The content of the collection a type absent from the cache is given.
EmptyCollection ==
  [ids |-> [val |-> <<>>], entities |-> [val |-> <<>>], filter |-> "",
   loaded |-> FALSE, loading |-> FALSE, originalValues |-> [val |-> <<>>]]

\* The definition of selector k without memoization: the content of its value
\* for collection c.
Plain(t, k, c) ==
  LET list == [i \in 1..Len(c.ids.val) |-> c.entities.val[c.ids.val[i]]]
  IN  CASE k = "selectCollection" -> CollContent(c)
        [] k = "selectCount" -> Len(c.ids.val)
        [] k = "selectEntities" -> list
        [] k = "selectEntityMap" -> c.entities.val
        [] k = "selectFilter" -> c.filter
        [] k = "selectFilteredEntities" ->
             IF HasFilterFn(t)
             THEN SelectSeq(list, LAMBDA e : Matches(e, c.filter))
             ELSE list
        [] k = "selectKeys" -> c.ids.val
        [] k = "selectLoaded" -> c.loaded
        [] k = "selectLoading" -> c.loading
        [] k = "selectOriginalValues" -> c.originalValues.val

\* The content of the value selector k returned.
Content(k, out) == IF k = "selectCollection" THEN CollContent(out) ELSE out.val

\* The collection the snapshot passed to the last call holds for its type.
Snapshot ==
  IF last.kind = "M" THEN last.inp
  ELSE IF IsAbsent(Stored(last.t, last.inp)) THEN EmptyCollection
  ELSE Stored(last.t, last.inp)

\* C14: after any sequence of calls, a member or root selector returns a
\* value equal in content to what its definition without memoization gives
\* for the snapshot passed to the call.
C14_Transparency ==
  last.kind \in {"A", "R", "M"} =>
    Content(last.name, last.out) = Plain(last.t, last.name, Snapshot)

C14_Witness ==
  /\ last.kind = "R" /\ last.name = "selectFilteredEntities"
  /\ CalledBefore
  /\ Content(last.name, last.prevOut) # Content(last.name, last.out)
  /\ Content(last.name, last.out) = Plain(last.t, last.name, Snapshot)

---------------------------------------------------------------------------
\* Default collections

\* The last call evaluated the collection selector of its type: it was a call
\* of that selector, or of a root selector not answered from its own memo.
AccessorEvaluated ==
  \/ last.kind = "A"
  \/ /\ last.kind = "R"
     /\ last.prevArgs = <<>> \/ ~Same(last.prevArgs[1], last.inp)

\* The cache slice of the call is not the one the collection selector saw on
\* its previous evaluation.
OtherSlice ==
  last.preAcc = <<>> \/ ~Same(last.preAcc[1], store[last.inp.oid])

\* The collection the collection selector of type t holds after the call is
\* the one the creator made last.
HoldsNewest(t) ==
  sel[AccessorId(t)].proj.lastResult.oid =
    FreshOid(SiteNo(AccessorId(t)), 4 * (nAlloc[AccessorId(t)] - 1) + 1)

\* C15: for a type absent from the cache, an evaluation of its collection
\* selector on a cache slice other than the one of its previous evaluation
\* invokes the creator once and yields that new instance, different from the
\* instance of the previous evaluation and from every earlier one.
C15_DefaultsNotCached ==
  (AccessorEvaluated /\ IsAbsent(Stored(last.t, last.inp)) /\ OtherSlice) =>
    /\ last.ran.create = 1
    /\ HoldsNewest(last.t)
    /\ ~Same(sel[AccessorId(last.t)].proj.lastResult, last.preAccOut)
    /\ last.kind = "A" => Same(last.out, sel[AccessorId(last.t)].proj.lastResult)

\* Slices A, B, A: the third evaluation made the third instance.
C15_Witness ==
  /\ last.kind = "A" /\ callCount = 3
  /\ IsAbsent(Stored(last.t, last.inp))
  /\ nAlloc[AccessorId(last.t)] = 3
  /\ last.out.oid = FreshOid(SiteNo(AccessorId(last.t)), 9)
  /\ last.ran.create = 1

---------------------------------------------------------------------------
\* Root selectEntities and selectFilteredEntities of a type without filterFn

\* The arrays root selectEntities and then root selectFilteredEntities of
\* type t return for global state s.
BothLists(t, s) ==
  LET e == entitySelectors(t, "selectEntities", s, Env)
      f == entitySelectors(t, "selectFilteredEntities", s, e.env)
  IN  <<e.out, f.out>>

\* The types configured without a filterFn.
Unfiltered == {t \in Types : ~HasFilterFn(t)}

\* The global states whose cache stores a collection for type t.
StoringStates(t) == {s \in States : ~IsAbsent(Stored(t, s))}

\* C16 as stated, on the global states that store a collection for the type:
\* for a type without filterFn, root selectFilteredEntities and root
\* selectEntities return the identical array for the same global state,
\* after any earlier calls.
C16_Original ==
  \A t \in Unfiltered :
    \A s \in StoringStates(t) :
      LET b == BothLists(t, s) IN Same(b[1], b[2])

\* Neither root selector of type t remembers an array other than the one the
\* member selectEntities they share holds.
MemosAgree(t) ==
  \A k \in SharingNames :
    \/ sel[SelId("R", t, k)].proj.lastArguments = <<>>
    \/ Same(sel[SelId("R", t, k)].proj.lastResult,
            sel[SelId("P", t, "selectEntities")].state.lastResult)

\* C16, amended: the two arrays always have the same content; they are the
\* identical array when the state stores a collection for the type and
\* neither root selector remembers an array the shared member selectEntities
\* no longer holds.
C16_SharedWhileAgreeing ==
  \A t \in Unfiltered, s \in States :
    LET b == BothLists(t, s)
    IN  /\ b[1].val = b[2].val
        /\ (MemosAgree(t) /\ ~IsAbsent(Stored(t, s))) => Same(b[1], b[2])

C16_Witness ==
  /\ last.kind = "R" /\ last.name = "selectFilteredEntities"
  /\ ~HasFilterFn(last.t)
  /\ ~IsAbsent(Stored(last.t, last.inp))
  /\ sel[SelId("R", last.t, "selectEntities")].proj.lastArguments # <<>>
  /\ MemosAgree(last.t)
  /\ LET b == BothLists(last.t, last.inp)
     IN  Same(b[1], last.out) /\ Same(b[2], last.out)

---------------------------------------------------------------------------
\* Selectors of two types

\* C17: when a root selector of one type is called again with the identical
\* global state, and only selectors of the other type were called in between
\* (any number of times, with any global states), the second call returns
\* the same output and runs neither the member computation nor the creator.
C17_PrivateMemo ==
  watch.again => Same(last.out, watch.before) /\ last.ran = NoRuns

\* Two calls on the other type in between, for a type absent from the cache.
C17_Witness ==
  /\ watch.again /\ watch.between = 2
  /\ last.name = "selectEntities"
  /\ IsAbsent(Stored(last.t, last.inp))
  /\ Same(last.out, watch.before)

---------------------------------------------------------------------------
\* The filter predicate

\* The last call was of member selectFilteredEntities of a type with filterFn.
FilteredCall ==
  /\ last.kind = "M" /\ last.name = "selectFilteredEntities"
  /\ HasFilterFn(last.t)

\* The call was made with the collection of the selector's previous call.
SameCollection == CalledBefore /\ Same(last.prevArgs[1], last.inp)

\* The entity list selectEntities produced during the call.
ListNow == sel[SelId("M", last.t, "selectEntities")].state.lastResult

\* The entity list or the pattern of the call is not the one the predicate
\* was invoked with the time before.
InputsDiffer ==
  \/ last.preProj = <<>>
  \/ ~Same(last.preProj[1], ListNow)
  \/ ~Same(last.preProj[2], selectFilter(last.inp))

\* The predicate is invoked exactly when the call evaluates its inputs and one
\* of them differs.
InvokedIffDiffer ==
  FilteredCall =>
    last.ran.filter = (IF ~SameCollection /\ InputsDiffer THEN 1 ELSE 0)

\* The call follows one on another collection object with the same ids and
\* entities.
AfterSubFieldSame ==
  /\ FilteredCall /\ CalledBefore
  /\ SubFieldSame(PrevCollection, last.inp)

\* Only loaded, loading or originalValues changed: the array of before, and
\* no predicate.
KeepsFiltered ==
  (AfterSubFieldSame /\ PrevCollection.filter = last.inp.filter) =>
    last.ran.filter = 0 /\ Same(last.out, last.prevOut)

\* Only the pattern changed: the predicate, and no mapping.
RefiltersOnly ==
  (AfterSubFieldSame /\ PrevCollection.filter # last.inp.filter) =>
    last.ran.filter = 1 /\ last.ran.map = 0

\* C18 as stated: the predicate is invoked iff the entity list or the pattern
\* differs from the ones of its previous invocation; a new collection in
\* which only loaded, loading or originalValues changed gives the array of
\* before without the predicate; a change of the pattern alone invokes the
\* predicate without the mapping.
C18_Original == InvokedIffDiffer /\ KeepsFiltered /\ RefiltersOnly

\* Member selectEntities still holds, before the call, the entity list the
\* predicate was invoked with the time before.
ListStillHeld ==
  last.preProj # <<>> /\ Same(last.preMemOut, last.preProj[1])

\* C18, amended: the two consequences hold while member selectEntities still
\* holds the entity list of the predicate's previous invocation.
C18_WhileListHeld ==
  /\ InvokedIffDiffer
  /\ ListStillHeld => (KeepsFiltered /\ RefiltersOnly)

\* The pattern alone changed, and member selectEntities was called on its own
\* in between with the same ids and entities.
C18_Witness ==
  /\ AfterSubFieldSame /\ ListStillHeld
  /\ callCount = 3
  /\ PrevCollection.filter # last.inp.filter
  /\ last.ran.filter = 1 /\ last.ran.map = 0
  /\ last.out.val = <<E1>>

---------------------------------------------------------------------------
\* Names of additional fields and of built-in selectors

\* C19: no build returns a CollectionSelectors object for a configuration one
\* of whose declared fields is given the name of a built-in selector, and in
\* a returned object every built-in name is bound to the built-in selector.
C19_Original ==
  Returned("member") =>
    /\ \A f \in Declared : extraName(f) \notin MemberNames
    /\ \A k \in MemberNames : built.selectors[k] = Bound("builtin", k)

====
